---- MODULE Spec2Model ----
(***************************************************************************)
(* Authentication engine of sahotsava-be: AuthService (login, refresh,     *)
(* logout, email verification, verification resend), the user cache of     *)
(* UserService, the JWT codec of middlewares/auth and the auth routes.     *)
(* A request is a process; a step of a process is the code between two     *)
(* awaits on the store (prisma) or the cache (redis).  Two awaits are      *)
(* taken in one step only where nothing another request does in between    *)
(* can be observed (token minting followed by the cache write on the one   *)
(* redis connection, the durable token write followed by caching a token   *)
(* nobody knows yet).                                                      *)
(***************************************************************************)
EXTENDS Integers, Sequences, FiniteSets, TLC

\* ---------------------------------------------------------------- bounds
\* Requests received plus clock advances in one behaviour.
MaxEvents == 3

\* ------------------------------------------------------ program constants
VerificationTTL == 86400
RefreshCacheTTL == 2592000
RefreshTokenTTL == 2592000
AccessTokenTTL == 86400
UserCacheTTL == 3600
EventsTTL == 300
RegistrationsTTL == 180
DefaultTake == 100


\* --------------------------------------------------------------- universe
Procs == {"p1", "p2"}
Users == {"u1", "u2"}
EmailOf(u) == IF u = "u1" THEN "e1" ELSE "e2"
RoleOf(u) == IF u = "u1" THEN "CAMPUS_AMBASSADOR" ELSE "SUPER_ADMIN"
Roles == {"SUPER_ADMIN", "DOMAIN_LEAD", "CAMPUS_AMBASSADOR", "CHECKIN_CREW"}
PwOf(u) == "pw"
RegUsers == {"u1"}
SeedUsers == {"u2"}
Emails == {EmailOf(u) : u \in Users}
Passwords == {"pw", "bad"}
TokenNames == <<"T1", "T2", "T3", "T4", "T5", "T6", "T7", "T8">>
TickSteps == {1, RefreshTokenTTL}
\* Clock advances that bring a session to the second before its 30 days
\* are over, and onto them.
SessionTickSteps == {1, RefreshTokenTTL - 1, RefreshTokenTTL}
\* The same around the 24 hours of a verification token.
VerificationTickSteps == {1, VerificationTTL - 1, VerificationTTL}

NoUser == "none"
NoVTok == "null"
NoJwt == [sec |-> "none", id |-> "none", email |-> "none", role |-> "none",
          iat |-> 0, exp |-> 0]
\* note is bookkeeping for the properties: what was true of the request's
\* argument when the request was sent.
NoReq == [op |-> "none", email |-> "none", pw |-> "none", tok |-> NoJwt,
          vtok |-> NoVTok, note |-> "none", scheme |-> "none", roles |-> {},
          id |-> NoUser, order |-> "", skip |-> -1, take |-> -1]
NoRow == [email |-> "none", password |-> <<"bcrypt", "salt", "none">>, role |-> "none",
          is_verified |-> FALSE, verification_token |-> NoVTok, id |-> NoUser]

\* The user object of a reply body has the row's shape; a field the body
\* leaves out reads as in NoRow.
NoResp == [status |-> 0, msg |-> "", access |-> NoJwt, refresh |-> NoJwt,
           user |-> NoRow, list |-> <<>>]
\* A log line: its text, and the email and password printed in it ("" when
\* the line prints none).
NoLine == [line |-> "", email |-> "", password |-> ""]

VARIABLES db, redis, now, pc, req, loc, resp, faulted, events,
          issued, vissued, revoked, okVerify, rejects, env, okRefresh, logs, srv, halted, eventStore

vars == <<db, redis, now, pc, req, loc, resp, faulted, events,
          issued, vissued, revoked, okVerify, rejects, env, okRefresh, logs, srv, halted, eventStore>>

\* ------------------------------------------------------------ password lib
\* bcrypt.hash salts the digest; bcrypt.compareSync recomputes it from the
\* salt kept in the hash.
hashPassword(password) == <<"bcrypt", "salt", password>>

compareHashedPassword(password, hashed) ==
    hashed[1] = "bcrypt" /\ hashed[3] = password

\* ------------------------------------------------------------- environment
\* Bun.env.JWT_SECRET || "your-secret-key" and
\* Bun.env.JWT_REFRESH_SECRET || "refresh-secret": an unset (or empty)
\* variable falls back to the literal.
JwtSecret ==
    IF env.JWT_SECRET = "" THEN "your-secret-key" ELSE env.JWT_SECRET

JwtRefreshSecret ==
    IF env.JWT_REFRESH_SECRET = "" THEN "refresh-secret"
    ELSE env.JWT_REFRESH_SECRET

\* The environments the process is started with: each variable unset or
\* set by the operator; nothing at startup compares the two.
Envs == [JWT_SECRET : {"", "k1"}, JWT_REFRESH_SECRET : {"", "k1"}]

\* --------------------------------------------------------------- JWT codec
\* jwt.sign is a deterministic function of payload, secret and the clock's
\* second: iat = now, exp = iat + expiresIn.
generateToken(u, email, role, t) ==
    [sec |-> JwtSecret, id |-> u, email |-> email, role |-> role,
     iat |-> t, exp |-> t + AccessTokenTTL]

generateRefreshToken(u, email, t) ==
    [sec |-> JwtRefreshSecret, id |-> u, email |-> email, role |-> "none",
     iat |-> t, exp |-> t + RefreshTokenTTL]

\* jwt.verify: signature under the given secret, and clock < exp.
verifyRefreshToken(token, t) ==
    token.sec = JwtRefreshSecret /\ t < token.exp

verifyToken(token, t) ==
    token.sec = JwtSecret /\ t < token.exp

\* ------------------------------------------------------------------- redis
RefreshKey(u) == <<"refresh_token", u>>
VerificationKey(tk) == <<"verification", tk>>
UserEmailKey(e) == <<"user:email", e>>

RedisHas(k) == k \in DOMAIN redis /\ now < redis[k].exp

RedisSet(r, k, v, ttl) == (k :> [val |-> v, exp |-> now + ttl]) @@ r

RedisDel(r, k) == [x \in (DOMAIN r) \ {k} |-> r[x]]

RedisPurge(r, t) == [x \in {k \in DOMAIN r : t < r[k].exp} |-> r[x]]

\* ------------------------------------------------------------------- store
FindByEmail(e) == {u \in DOMAIN db : db[u].email = e}

\* ---------------------------------------------------------------- helpers
Flatten(f) == UNION {{f[u][i] : i \in 1..Len(f[u])} : u \in Users}

VTokCount == Cardinality(Flatten(vissued))

generateVerificationToken_reuse == TokenNames[1]

generateVerificationToken == TokenNames[VTokCount + 1]

error(msg, status) ==
    [status |-> status, msg |-> msg, access |-> NoJwt, refresh |-> NoJwt,
     user |-> NoRow, list |-> <<>>]

success(msg, access, refresh) ==
    [status |-> 200, msg |-> msg, access |-> access, refresh |-> refresh,
     user |-> NoRow, list |-> <<>>]

\* data.user of the login and verify-email replies: the fields the route
\* copies out of the row, one by one.
userFields(row) ==
    [NoRow EXCEPT !.id = row.id, !.email = row.email, !.role = row.role,
                  !.is_verified = row.is_verified]

Finish(p, r, f) ==
    /\ pc' = [pc EXCEPT ![p] = "done"]
    /\ resp' = [resp EXCEPT ![p] = r]
    /\ faulted' = [faulted EXCEPT ![p] = f]
    /\ loc' = [loc EXCEPT ![p] = NoRow]

\* ------------------------------------------------------------------ process
\* The server process once index.ts has run to its first await: the signal
\* handlers are registered and setup() has created the PrismaClient and
\* awaits $connect(); the Redis client does not exist yet.  h[i] is the
\* position of the i-th invocation of shutdown_handler, exit the code the
\* process exited with (-1 while it runs).
Handlers == 1..MaxEvents

Booted ==
    [setup |-> "connectDb", prisma |-> "connecting", redis |-> "null",
     h |-> [i \in Handlers |-> "idle"], exit |-> -1]

\* State after construction, whatever the environment.
InitState ==
    /\ db = <<>>
    /\ redis = <<>>
    /\ now = 0
    /\ pc = [p \in Procs |-> "idle"]
    /\ req = [p \in Procs |-> NoReq]
    /\ loc = [p \in Procs |-> NoRow]
    /\ resp = [p \in Procs |-> NoResp]
    /\ faulted = [p \in Procs |-> FALSE]
    /\ events = 0
    /\ issued = {}
    /\ vissued = [u \in Users |-> <<>>]
    /\ revoked = [u \in Users |-> NoJwt]
    /\ okVerify = {}
    /\ rejects = {}
    /\ eventStore = 0
    /\ halted = {}
    /\ srv = Booted
    /\ logs = {}
    /\ okRefresh = {}

\* No JWT variable is set: both secrets are the literals.
Init ==
    /\ InitState
    /\ env = [JWT_SECRET |-> "", JWT_REFRESH_SECRET |-> ""]

\* redis.set(verification:{token}, userId, {EX: 86400}), in registerUser
\* and in generateNewVerificationToken.
cacheVerification_thirtyDays(r, tk, userId) ==
    RedisSet(r, VerificationKey(tk), userId, RefreshCacheTTL)

cacheVerification(r, tk, userId) ==
    RedisSet(r, VerificationKey(tk), userId, VerificationTTL)

\* ------------------------------------------------------------ provisioning
\* seedUsers: prisma.user.upsert keyed by p_email; a created row is
\* verified, an existing row keeps is_verified and its password.
\* The line seedUsers logs for each row:
\* log.info(`User seeded: ${Email} (${Role}) - Password: ${password} ..`)
seedLine(email, password) ==
    [NoLine EXCEPT !.line = "User seeded", !.email = email,
                   !.password = password]

SeedUser(u, role) ==
    /\ u \notin DOMAIN db
    /\ db' = (u :> [email |-> EmailOf(u), password |-> hashPassword(PwOf(u)),
                    role |-> role, is_verified |-> TRUE,
                    verification_token |-> NoVTok, id |-> u]) @@ db
    /\ logs' = logs \cup {seedLine(EmailOf(u), PwOf(u))}
    /\ UNCHANGED <<redis, now, pc, req, loc, resp, faulted, events,
                   issued, vissued, revoked, okVerify, rejects, env,
                   okRefresh, srv, halted, eventStore>>

\* AuthService.registerUser(email, .., role, password): the row is created
\* unverified with a fresh verification token, whatever the role, then the
\* token is cached for 24 hours.
registerUser(u, role) ==
    /\ u \notin DOMAIN db
    /\ LET tk == generateVerificationToken IN
       /\ db' = (u :> [email |-> EmailOf(u), password |-> hashPassword(PwOf(u)),
                       role |-> role, is_verified |-> FALSE,
                       verification_token |-> tk, id |-> u]) @@ db
       /\ redis' = cacheVerification(redis, tk, u)
       /\ vissued' = [vissued EXCEPT ![u] = Append(@, tk)]
    /\ logs' = logs \cup {[NoLine EXCEPT !.line = "User registered",
                                          !.email = EmailOf(u)]}
    /\ UNCHANGED <<now, pc, req, loc, resp, faulted, events,
                   issued, revoked, okVerify, rejects, env,
                   okRefresh, srv, halted, eventStore>>

\* ------------------------------------------------------------------- clock
Tick(d) ==
    /\ events < MaxEvents
    /\ events' = events + 1
    /\ now' = now + d
    /\ redis' = RedisPurge(redis, now + d)
    /\ UNCHANGED <<db, pc, req, loc, resp, faulted,
                   issued, vissued, revoked, okVerify, rejects, env,
                   okRefresh, logs, srv, halted, eventStore>>

\* ------------------------------------------------------- request lifecycle
\* A connection p carries one request at a time.
Start(p, r, first) ==
    /\ pc[p] = "idle"
    /\ events < MaxEvents
    /\ events' = events + 1
    /\ pc' = [pc EXCEPT ![p] = first]
    /\ req' = [req EXCEPT ![p] = r]
    /\ UNCHANGED <<db, redis, now, loc, resp, faulted,
                   issued, vissued, revoked, okVerify, rejects, env,
                   okRefresh, logs, srv, halted, eventStore>>

\* res.status(..).json(..): the reply leaves the server.  Nothing the
\* server does afterwards reads it, so it is sent before any other step.
Return(p) ==
    /\ pc[p] = "done"
    /\ pc' = [pc EXCEPT ![p] = "idle"]
    /\ req' = [req EXCEPT ![p] = NoReq]
    /\ resp' = [resp EXCEPT ![p] = NoResp]
    /\ faulted' = [faulted EXCEPT ![p] = FALSE]
    /\ UNCHANGED <<db, redis, now, loc, events,
                   issued, vissued, revoked, okVerify, rejects, env,
                   okRefresh, logs, srv, halted, eventStore>>

Replying == \E p \in Procs : pc[p] = "done"

\* ------------------------------------------------------------------- login
\* POST /login with a body {email, password}.  The note "again" records
\* that a login of the same user had already returned success.
LoginStart(p) ==
    \E e \in Emails, pw \in Passwords :
        Start(p, [NoReq EXCEPT !.op = "login", !.email = e, !.pw = pw,
                               !.note = IF \E u \in FindByEmail(e) :
                                              \E t \in issued : t.id = u
                                        THEN "again" ELSE "none"],
              "login1")

\* AuthService.login, the two checks on the row that was found.
LoginRejects_passwordOnly(user, password) ==
    ~compareHashedPassword(password, user.password)

LoginRejects(user, password) ==
    ~user.is_verified \/ ~compareHashedPassword(password, user.password)

\* POST /login when authService.login returned null: the reason went to the
\* log (log.warn), the reply does not carry it.
LoginReply_telling(reason) == error(reason, 401)

LoginReply(reason) == error("Invalid email or password", 401)

\* AuthService.login returns null from a failed check before it has made
\* any call to the cache.
rejectedLoginCache_lockout(r, email) ==
    [k \in {x \in DOMAIN r :
               ~(x[1] = "refresh_token" /\ r[x].val.email = email)} |-> r[k]]

rejectedLoginCache(r, email) == r

\* A login rejected by one of the three checks; rejects keeps, for the
\* properties, which check failed and what the caller was sent.
LoginReject(p, reason) ==
    /\ Finish(p, LoginReply(reason), FALSE)
    /\ redis' = rejectedLoginCache(redis, req[p].email)
    /\ rejects' = rejects \cup {[reason |-> reason,
                                  reply |-> LoginReply(reason)]}

\* AuthService.login, the session write.
loginCache_access(r, user, accessToken, refreshToken) ==
    RedisSet(r, RefreshKey(user.id), accessToken, RefreshCacheTTL)

loginCache_oneDay(r, user, accessToken, refreshToken) ==
    RedisSet(r, RefreshKey(user.id), refreshToken, VerificationTTL)

loginCache(r, user, accessToken, refreshToken) ==
    RedisSet(r, RefreshKey(user.id), refreshToken, RefreshCacheTTL)

\* AuthService.login, prisma.user.findUnique({email}) and the checks on the
\* row; a store failure is caught and login returns null, which the route
\* answers like a rejection.
LoginFind(p) ==
    /\ pc[p] = "login1"
    /\ \/ /\ Finish(p, error("Invalid email or password", 401), TRUE)
          /\ UNCHANGED <<rejects, redis>>
       \/ LET found == FindByEmail(req[p].email) IN
          IF found = {} THEN
             LoginReject(p, "non-existent email")
          ELSE LET user == db[CHOOSE u \in found : TRUE] IN
             IF LoginRejects(user, req[p].pw) THEN
                LoginReject(p, IF ~user.is_verified THEN "unverified email"
                               ELSE "Invalid password")
             ELSE
                /\ pc' = [pc EXCEPT ![p] = "login2"]
                /\ loc' = [loc EXCEPT ![p] = user]
                /\ UNCHANGED <<resp, faulted, rejects, redis>>
    /\ UNCHANGED <<db, now, req, events, issued, vissued,
                   revoked, okVerify, env, okRefresh, logs, srv,
                   halted, eventStore>>

\* AuthService.login, token minting and redis.set(refresh_token:{id}).
LoginIssue(p) ==
    /\ pc[p] = "login2"
    /\ LET user == loc[p]
           accessToken == generateToken(user.id, user.email, user.role, now)
           refreshToken == generateRefreshToken(user.id, user.email, now)
       IN \/ /\ Finish(p, error("Invalid email or password", 401), TRUE)
             /\ UNCHANGED <<redis, issued, revoked>>
          \/ /\ redis' = loginCache(redis, user, accessToken, refreshToken)
             /\ Finish(p, [success("Login successful", accessToken,
                                   refreshToken)
                            EXCEPT !.user = userFields(user)], FALSE)
             /\ issued' = issued \cup {refreshToken}
             /\ revoked' = [revoked EXCEPT ![user.id] = NoJwt]
    /\ UNCHANGED <<db, now, req, events, vissued, okVerify, rejects,
                   env, okRefresh, logs, srv, halted, eventStore>>

\* ----------------------------------------------------------------- refresh
IssuedRefresh == issued

Forge(tok) == [tok EXCEPT !.sec = "attacker-key"]

Malformed == [NoJwt EXCEPT !.sec = "malformed"]

\* What a client can put in the refreshToken field: a token some login
\* returned, the same payload signed with a key of its own, or junk.
PresentableRefresh ==
    IssuedRefresh \cup {Forge(t) : t \in IssuedRefresh} \cup {Malformed}

\* POST /refresh-token with a body {refreshToken: t}.  The note "repeat"
\* records that a refresh with t had already returned success.
RefreshSend(p, t) ==
    Start(p, [NoReq EXCEPT !.op = "refresh", !.tok = t,
                           !.note = IF t.id \in Users /\ t = revoked[t.id]
                                    THEN "revoked"
                                    ELSE IF t \in okRefresh THEN "repeat"
                                    ELSE "none"],
          "refresh1")

RefreshStart(p) == \E t \in PresentableRefresh : RefreshSend(p, t)

\* cachedToken !== refreshToken, cachedToken being null for a missing key.
TokenMismatch_skipped(k, refreshToken) == FALSE

TokenMismatch(k, refreshToken) ==
    ~RedisHas(k) \/ redis[k].val # refreshToken

\* AuthService.refreshAccessToken, verifyRefreshToken and the comparison
\* with redis.get(refresh_token:{decoded.id}).
RefreshLookup(p) ==
    /\ pc[p] = "refresh1"
    /\ \/ /\ verifyRefreshToken(req[p].tok, now)
          /\ Finish(p, error("Invalid or expired refresh token", 401), TRUE)
       \/ IF ~verifyRefreshToken(req[p].tok, now) THEN
             Finish(p, error("Invalid or expired refresh token", 401), FALSE)
          ELSE IF TokenMismatch(RefreshKey(req[p].tok.id), req[p].tok) THEN
             Finish(p, error("Invalid or expired refresh token", 401), FALSE)
          ELSE
             /\ pc' = [pc EXCEPT ![p] = "refresh2"]
             /\ loc' = [loc EXCEPT ![p] = [NoRow EXCEPT !.id = req[p].tok.id]]
             /\ UNCHANGED <<resp, faulted>>
    /\ UNCHANGED <<db, redis, now, req, events, issued, vissued,
                   revoked, okVerify, rejects, env, okRefresh, logs,
                   srv, halted, eventStore>>

\* AuthService.refreshAccessToken returns {accessToken} only: the presented
\* refresh token is neither rotated nor deleted, the cache is left as it is.
refreshCache_consume(r, userId) == RedisDel(r, RefreshKey(userId))

refreshCache(r, userId) == r

\* AuthService.refreshAccessToken, prisma.user.findUnique({id}) and the new
\* access token.
RefreshMint(p) ==
    /\ pc[p] = "refresh2"
    /\ \/ /\ Finish(p, error("Invalid or expired refresh token", 401), TRUE)
          /\ UNCHANGED <<redis, okRefresh>>
       \/ LET id == loc[p].id IN
          IF id \notin DOMAIN db \/ ~db[id].is_verified THEN
             /\ Finish(p, error("Invalid or expired refresh token", 401),
                       FALSE)
             /\ UNCHANGED <<redis, okRefresh>>
          ELSE
             /\ Finish(p, success("Token refreshed successfully",
                                  generateToken(id, db[id].email, db[id].role,
                                                now), NoJwt), FALSE)
             /\ redis' = refreshCache(redis, id)
             /\ okRefresh' = okRefresh \cup {req[p].tok}
    /\ UNCHANGED <<db, now, req, events, issued, vissued,
                   revoked, okVerify, rejects, env, logs, srv,
                   halted, eventStore>>

\* ------------------------------------------------------------------ logout
\* The access token that a login returned together with refresh token t.
AccessOf(t) == generateToken(t.id, t.email, db[t.id].role, t.iat)

\* POST /logout with the header Authorization: Bearer t.  The note
\* "no session" records that the token's user had no cached session when
\* the request was sent.
LogoutSend(p, t) ==
    Start(p, [NoReq EXCEPT !.op = "logout", !.tok = t,
                           !.note = IF t.id \in Users
                                       /\ ~RedisHas(RefreshKey(t.id))
                                    THEN "no session" ELSE "none"],
          "logout1")

LogoutStart(p) ==
    \E t \in {AccessOf(r) : r \in IssuedRefresh} \cup {Malformed} :
        LogoutSend(p, t)

\* AuthService.logout: redis.del(refresh_token:{userId}).
logout_noop(r, userId) == r

logout_emailKey(r, userId) == RedisDel(r, <<"refresh_token", EmailOf(userId)>>)

logout(r, userId) == RedisDel(r, RefreshKey(userId))

\* authenticate: the Bearer token goes through verifyToken; neither the
\* cache nor the store is asked.
authenticate_session(token, t) ==
    verifyToken(token, t) /\ RedisHas(RefreshKey(token.id))

authenticate(token, t) == verifyToken(token, t)

\* authenticate, then the /logout handler and AuthService.logout.
Logout(p) ==
    /\ pc[p] = "logout1"
    /\ IF ~authenticate(req[p].tok, now) THEN
          /\ Finish(p, error("Invalid or expired token", 401), FALSE)
          /\ UNCHANGED <<redis, revoked>>
       ELSE LET userId == req[p].tok.id IN
          \/ /\ Finish(p, error("Logout failed", 500), TRUE)
             /\ UNCHANGED <<redis, revoked>>
          \/ /\ redis' = logout(redis, userId)
             /\ revoked' = [revoked EXCEPT ![userId] =
                               IF RedisHas(RefreshKey(userId))
                               THEN redis[RefreshKey(userId)].val ELSE @]
             /\ Finish(p, success("Logged out successfully", NoJwt, NoJwt),
                       FALSE)
    /\ UNCHANGED <<db, now, req, events, issued, vissued, okVerify,
                   rejects, env, okRefresh, logs, srv, halted, eventStore>>

\* ------------------------------------------------------------ verify email
IssuedVTokens == Flatten(vissued)

\* POST /verify-email with a body {token}: a token that was issued, or one
\* that never was.  The note "late" records that a verification with this token had
\* already returned success when the request was sent.
VerifyStart(p) ==
    \E tk \in IssuedVTokens \cup {"T0"} :
        Start(p, [NoReq EXCEPT !.op = "verify", !.vtok = tk,
                               !.note = IF tk \in okVerify THEN "late"
                                        ELSE IF tk \in halted THEN "halted"
                                        ELSE "none"],
              "verify1")

\* AuthService.verifyEmail: redis.get(verification:{token}).
VerifyLookup(p) ==
    /\ pc[p] = "verify1"
    /\ \/ Finish(p, error("Invalid or expired verification token", 400), TRUE)
       \/ IF ~RedisHas(VerificationKey(req[p].vtok)) THEN
             Finish(p, error("Invalid or expired verification token", 400),
                    FALSE)
          ELSE
             /\ pc' = [pc EXCEPT ![p] = "verify2"]
             /\ loc' = [loc EXCEPT ![p] = [NoRow EXCEPT !.id =
                           redis[VerificationKey(req[p].vtok)].val]]
             /\ UNCHANGED <<resp, faulted>>
    /\ UNCHANGED <<db, redis, now, req, events, issued, vissued,
                   revoked, okVerify, rejects, env, okRefresh, logs,
                   srv, halted, eventStore>>

\* AuthService.verifyEmail: prisma.user.update({id}, is_verified = true,
\* verification_token = null); update throws when the row is missing.
VerifyUpdate(p) ==
    /\ pc[p] = "verify2"
    /\ \/ /\ Finish(p, error("Invalid or expired verification token", 400),
                    TRUE)
          /\ UNCHANGED db
       \/ LET userId == loc[p].id IN
          IF userId \notin DOMAIN db THEN
             /\ Finish(p, error("Invalid or expired verification token", 400),
                       FALSE)
             /\ UNCHANGED db
          ELSE
             /\ db' = [db EXCEPT ![userId].is_verified = TRUE,
                                 ![userId].verification_token = NoVTok]
             /\ pc' = [pc EXCEPT ![p] = "verify3"]
             /\ loc' = [loc EXCEPT ![p] = db'[userId]]
             /\ UNCHANGED <<resp, faulted>>
    /\ UNCHANGED <<redis, now, req, events, issued, vissued,
                   revoked, okVerify, rejects, env, okRefresh, logs,
                   srv, halted, eventStore>>

\* AuthService.verifyEmail: redis.del(verification:{token}).
consumeToken_keep(r, tk) == r

consumeToken_session(r, tk) ==
    IF VerificationKey(tk) \in DOMAIN r THEN
       RedisSet(RedisDel(r, VerificationKey(tk)),
                RefreshKey(r[VerificationKey(tk)].val), NoJwt,
                RefreshCacheTTL)
    ELSE r

consumeToken(r, tk) == RedisDel(r, VerificationKey(tk))

\* AuthService.verifyEmail: redis.del(verification:{token}), then the user
\* is returned and the route answers 200.
VerifyDelete(p) ==
    /\ pc[p] = "verify3"
    /\ \/ /\ Finish(p, error("Invalid or expired verification token", 400),
                    TRUE)
          /\ halted' = halted \cup {req[p].vtok}
          /\ UNCHANGED <<redis, okVerify>>
       \/ /\ redis' = consumeToken(redis, req[p].vtok)
          /\ okVerify' = okVerify \cup {req[p].vtok}
          /\ Finish(p, [success("Email verified successfully", NoJwt, NoJwt)
                        EXCEPT !.user = userFields(loc[p])], FALSE)
          /\ UNCHANGED halted
    /\ UNCHANGED <<db, now, req, events, issued, vissued, revoked,
                   rejects, env, okRefresh, logs, srv, eventStore>>

\* ----------------------------------------------------- resend verification
\* POST /resend-verification with a body {email}.
ResendStart(p) ==
    \E e \in Emails :
        Start(p, [NoReq EXCEPT !.op = "resend", !.email = e,
                               !.note = IF \E u \in FindByEmail(e) :
                                              db[u].is_verified
                                        THEN "verified" ELSE "none"],
              "resend1")

\* The route's decision once getUserByEmail has returned a user.
ResendDecide(p, user) ==
    IF user.is_verified THEN
       Finish(p, success("Email already verified", NoJwt, NoJwt), FALSE)
    ELSE
       /\ pc' = [pc EXCEPT ![p] = "resend3"]
       /\ loc' = [loc EXCEPT ![p] = user]
       /\ UNCHANGED <<resp, faulted>>

\* UserService.getUserByEmail: redis.get(user:email:{email}); a hit is
\* parsed and returned without asking the store.  Any failure makes
\* getUserByEmail return null, which the route answers 404.
ResendCacheGet(p) ==
    /\ pc[p] = "resend1"
    /\ \/ Finish(p, error("User not found", 404), TRUE)
       \/ IF RedisHas(UserEmailKey(req[p].email)) THEN
             ResendDecide(p, redis[UserEmailKey(req[p].email)].val)
          ELSE
             /\ pc' = [pc EXCEPT ![p] = "resend2"]
             /\ UNCHANGED <<loc, resp, faulted>>
    /\ UNCHANGED <<db, redis, now, req, events, issued, vissued,
                   revoked, okVerify, rejects, env, okRefresh, logs,
                   srv, halted, eventStore>>

\* UserService.getUserByEmail: prisma.user.findUnique({email}) and, for a
\* row that was found, redis.set(user:email:{email}) for one hour.
ResendFind(p) ==
    /\ pc[p] = "resend2"
    /\ LET found == FindByEmail(req[p].email) IN
       \/ /\ Finish(p, error("User not found", 404), TRUE)
          /\ UNCHANGED redis
       \/ /\ found = {}
          /\ Finish(p, error("User not found", 404), FALSE)
          /\ UNCHANGED redis
       \/ /\ found # {}
          /\ LET user == db[CHOOSE u \in found : TRUE] IN
             /\ redis' = RedisSet(redis, UserEmailKey(req[p].email), user,
                                  UserCacheTTL)
             /\ ResendDecide(p, user)
    /\ UNCHANGED <<db, now, req, events, issued, vissued, revoked,
                   okVerify, rejects, env, okRefresh, logs, srv,
                   halted, eventStore>>

\* AuthService.generateNewVerificationToken: prisma.user.update({id},
\* verification_token = token).
updateVerificationToken_unverify(d, userId, tk) ==
    [d EXCEPT ![userId].verification_token = tk,
              ![userId].is_verified = FALSE]

updateVerificationToken(d, userId, tk) ==
    [d EXCEPT ![userId].verification_token = tk]

\* AuthService.generateNewVerificationToken: a fresh token is written to
\* the row, then cached for 24 hours; either await may throw, the method
\* then returns null and the route answers 500.
ResendGenerate(p) ==
    /\ pc[p] = "resend3"
    /\ LET userId == loc[p].id
           tk == generateVerificationToken
       IN \/ /\ Finish(p, error("Failed to generate verification token", 500),
                       TRUE)
             /\ UNCHANGED <<db, redis, vissued>>
          \/ /\ db' = updateVerificationToken(db, userId, tk)
             /\ vissued' = [vissued EXCEPT ![userId] = Append(@, tk)]
             /\ \/ /\ Finish(p, error("Failed to generate verification token",
                                      500), TRUE)
                   /\ UNCHANGED redis
                \/ /\ redis' = cacheVerification(redis, tk, userId)
                   /\ pc' = [pc EXCEPT ![p] = "resend4"]
                   /\ loc' = [loc EXCEPT ![p] = db'[userId]]
                   /\ UNCHANGED <<resp, faulted>>
    /\ UNCHANGED <<now, req, events, issued, revoked, okVerify,
                   rejects, env, okRefresh, logs, srv, halted, eventStore>>

\* emailService.sendVerificationEmail returns false when the transport
\* fails; the route then answers 500.
ResendEmail(p) ==
    /\ pc[p] = "resend4"
    /\ \/ Finish(p, success("Verification email sent successfully", NoJwt,
                            NoJwt), FALSE)
       \/ Finish(p, error("Failed to send verification email", 500), FALSE)
    /\ UNCHANGED <<db, redis, now, req, events, issued, vissued,
                   revoked, okVerify, rejects, env, okRefresh, logs,
                   srv, halted, eventStore>>

Next ==
    \/ \E p \in Procs : Return(p)
    \/ ~Replying /\ \E u \in SeedUsers : SeedUser(u, RoleOf(u))
    \/ ~Replying /\ \E u \in RegUsers : registerUser(u, RoleOf(u))
    \/ ~Replying /\ \E d \in TickSteps : Tick(d)
    \/ ~Replying /\ \E p \in Procs : LoginStart(p)
    \/ ~Replying /\ \E p \in Procs : LoginFind(p)
    \/ ~Replying /\ \E p \in Procs : LoginIssue(p)
    \/ ~Replying /\ \E p \in Procs : RefreshStart(p)
    \/ ~Replying /\ \E p \in Procs : RefreshLookup(p)
    \/ ~Replying /\ \E p \in Procs : RefreshMint(p)
    \/ ~Replying /\ \E p \in Procs : LogoutStart(p)
    \/ ~Replying /\ \E p \in Procs : Logout(p)
    \/ ~Replying /\ \E p \in Procs : VerifyStart(p)
    \/ ~Replying /\ \E p \in Procs : VerifyLookup(p)
    \/ ~Replying /\ \E p \in Procs : VerifyUpdate(p)
    \/ ~Replying /\ \E p \in Procs : VerifyDelete(p)
    \/ ~Replying /\ \E p \in Procs : ResendStart(p)
    \/ ~Replying /\ \E p \in Procs : ResendCacheGet(p)
    \/ ~Replying /\ \E p \in Procs : ResendFind(p)
    \/ ~Replying /\ \E p \in Procs : ResendGenerate(p)
    \/ ~Replying /\ \E p \in Procs : ResendEmail(p)

Spec == Init /\ [][Next]_vars

\* ---------------------------------------------------------- provisioning
\* Provisioning with the role as an input (a CSV row's Role column for the
\* seed, the role argument for registerUser), followed by logins.
ProvisionNext ==
    \/ \E p \in Procs : Return(p)
    \/ ~Replying /\ \E u \in Users, role \in Roles : SeedUser(u, role)
    \/ ~Replying /\ \E u \in Users, role \in Roles : registerUser(u, role)
    \/ ~Replying /\ \E p \in Procs : LoginStart(p)
    \/ ~Replying /\ \E p \in Procs : LoginFind(p)
    \/ ~Replying /\ \E p \in Procs : LoginIssue(p)

SpecProvision == Init /\ [][ProvisionNext]_vars

\* ------------------------------------------------------- secrets in the env
\* Every token a login has returned, of either class.
Minted == IssuedRefresh \cup {AccessOf(r) : r \in IssuedRefresh}

EnvInit == InitState /\ env \in Envs

\* Logins of the seeded user under any environment; a client then presents
\* either of the tokens it holds to /refresh-token and to /logout.
EnvNext ==
    \/ \E p \in Procs : Return(p)
    \/ ~Replying /\ \E u \in SeedUsers : SeedUser(u, RoleOf(u))
    \/ ~Replying /\ \E p \in Procs : LoginStart(p)
    \/ ~Replying /\ \E p \in Procs : LoginFind(p)
    \/ ~Replying /\ \E p \in Procs : LoginIssue(p)
    \/ ~Replying /\ \E p \in Procs : \E t \in Minted : RefreshSend(p, t)
    \/ ~Replying /\ \E p \in Procs : RefreshLookup(p)
    \/ ~Replying /\ \E p \in Procs : RefreshMint(p)
    \/ ~Replying /\ \E p \in Procs : \E t \in Minted : LogoutSend(p, t)
    \/ ~Replying /\ \E p \in Procs : Logout(p)

SpecEnv == EnvInit /\ [][EnvNext]_vars

\* ------------------------------------------------------- guarded routes
\* The allowedRoles of the routes behind authenticate and authorize.
GuardedRoutes == {{"SUPER_ADMIN"}, {"SUPER_ADMIN", "DOMAIN_LEAD"}}

\* The Authorization header of a request: absent, of another scheme, or
\* "Bearer " followed by a token the client holds, a forgery or junk.
Schemes == {"none", "Basic", "Bearer"}

BearerTokens == Minted \cup {Forge(t) : t \in Minted} \cup {Malformed}

\* A request to a route mounted as (authenticate, authorize(R), handler).
GuardStart(p) ==
    \E h \in Schemes, R \in GuardedRoutes :
        \E t \in (IF h = "Bearer" THEN BearerTokens ELSE {NoJwt}) :
            Start(p, [NoReq EXCEPT !.op = "guarded", !.scheme = h, !.tok = t,
                                   !.roles = R],
                  "guard1")

\* authenticate up to next(): the 401 it answers, or NoResp when it calls
\* next() with req.user set to the decoded payload.
authenticateHeader(scheme, token, t) ==
    IF scheme # "Bearer" THEN
       error("Missing or invalid authorization header", 401)
    ELSE IF ~authenticate(token, t) THEN
       error("Invalid or expired token", 401)
    ELSE NoResp

\* authorize(allowedRoles) up to next(), for the req.user that authenticate
\* set (NoJwt when it set none).
authorize_anyRole(allowedRoles, user) ==
    IF user = NoJwt THEN error("User not authenticated", 401)
    ELSE NoResp

authorize(allowedRoles, user) ==
    IF user = NoJwt THEN error("User not authenticated", 401)
    ELSE IF user.role \notin allowedRoles THEN
       error("Insufficient permissions", 403)
    ELSE NoResp

\* The two middlewares run in one turn of the event loop (next() is a plain
\* call).  An exception inside either is caught by its try/catch and
\* answered: 401 "Authentication failed", 403 "Authorization failed".
Guard(p) ==
    /\ pc[p] = "guard1"
    /\ LET a == authenticateHeader(req[p].scheme, req[p].tok, now)
           z == authorize(req[p].roles, req[p].tok)
       IN \/ Finish(p, error("Authentication failed", 401), TRUE)
          \/ a = NoResp /\ Finish(p, error("Authorization failed", 403), TRUE)
          \/ a # NoResp /\ Finish(p, a, FALSE)
          \/ a = NoResp /\ z # NoResp /\ Finish(p, z, FALSE)
          \/ /\ a = NoResp /\ z = NoResp
             /\ pc' = [pc EXCEPT ![p] = "handler"]
             /\ loc' = [loc EXCEPT ![p] = [NoRow EXCEPT
                                              !.id = req[p].tok.id,
                                              !.email = req[p].tok.email,
                                              !.role = req[p].tok.role]]
             /\ UNCHANGED <<resp, faulted>>
    /\ UNCHANGED <<db, redis, now, req, events, issued, vissued,
                   revoked, okVerify, rejects, env, okRefresh, logs,
                   srv, halted, eventStore>>

\* The route's handler, reached through next().
Handler(p) ==
    /\ pc[p] = "handler"
    /\ Finish(p, success("handled", NoJwt, NoJwt), FALSE)
    /\ UNCHANGED <<db, redis, now, req, events, issued, vissued,
                   revoked, okVerify, rejects, env, okRefresh, logs,
                   srv, halted, eventStore>>

\* Logins of seeded users of two roles, the clock running past the access
\* token's 24 hours, and requests to guarded routes.
GuardNext ==
    \/ \E p \in Procs : Return(p)
    \/ ~Replying /\ \E u \in Users : SeedUser(u, RoleOf(u))
    \/ ~Replying /\ Tick(AccessTokenTTL)
    \/ ~Replying /\ \E p \in Procs : LoginStart(p)
    \/ ~Replying /\ \E p \in Procs : LoginFind(p)
    \/ ~Replying /\ \E p \in Procs : LoginIssue(p)
    \/ ~Replying /\ \E p \in Procs : GuardStart(p)
    \/ ~Replying /\ \E p \in Procs : Guard(p)
    \/ ~Replying /\ \E p \in Procs : Handler(p)

SpecGuard == Init /\ [][GuardNext]_vars

\* ------------------------------------------------------------ GET /me
\* GET /me with an Authorization header.
MeStart(p) ==
    \E h \in Schemes :
        \E t \in (IF h = "Bearer" THEN BearerTokens ELSE {NoJwt}) :
            Start(p, [NoReq EXCEPT !.op = "me", !.scheme = h, !.tok = t],
                  "me1")

\* authenticate, then the handler up to its await on
\* userService.getUserWithAssociations(req.user.id).
MeAuthenticate(p) ==
    /\ pc[p] = "me1"
    /\ LET a == authenticateHeader(req[p].scheme, req[p].tok, now)
       IN \/ Finish(p, error("Authentication failed", 401), TRUE)
          \/ a # NoResp /\ Finish(p, a, FALSE)
          \/ /\ a = NoResp
             /\ pc' = [pc EXCEPT ![p] = "me2"]
             /\ loc' = [loc EXCEPT ![p] = [NoRow EXCEPT
                                              !.id = req[p].tok.id]]
             /\ UNCHANGED <<resp, faulted>>
    /\ UNCHANGED <<db, redis, now, req, events, issued, vissued,
                   revoked, okVerify, rejects, env, okRefresh, logs,
                   srv, halted, eventStore>>

\* UserService.getUserWithAssociations: prisma.user.findUnique({id},
\* include: {...}) returns the row with every column; an error inside it is
\* caught and null returned.
getUserWithAssociations(userId) ==
    IF userId \in DOMAIN db THEN db[userId] ELSE NoRow

\* The handler after the await: 404 without a user, else data.user is the
\* object the service returned.
MeReply(p) ==
    /\ pc[p] = "me2"
    /\ LET user == getUserWithAssociations(loc[p].id)
       IN \/ Finish(p, error("User not found", 404), TRUE)
          \/ IF user = NoRow THEN
                Finish(p, error("User not found", 404), FALSE)
             ELSE
                Finish(p, [success("Profile retrieved successfully", NoJwt,
                                   NoJwt) EXCEPT !.user = user], FALSE)
    /\ UNCHANGED <<db, redis, now, req, events, issued, vissued,
                   revoked, okVerify, rejects, env, okRefresh, logs,
                   srv, halted, eventStore>>

\* Seeding and registration, email verification, login and profile reads.
ProfileNext ==
    \/ \E p \in Procs : Return(p)
    \/ ~Replying /\ \E u \in SeedUsers : SeedUser(u, RoleOf(u))
    \/ ~Replying /\ \E u \in RegUsers : registerUser(u, RoleOf(u))
    \/ ~Replying /\ \E p \in Procs : VerifyStart(p)
    \/ ~Replying /\ \E p \in Procs : VerifyLookup(p)
    \/ ~Replying /\ \E p \in Procs : VerifyUpdate(p)
    \/ ~Replying /\ \E p \in Procs : VerifyDelete(p)
    \/ ~Replying /\ \E p \in Procs : LoginStart(p)
    \/ ~Replying /\ \E p \in Procs : LoginFind(p)
    \/ ~Replying /\ \E p \in Procs : LoginIssue(p)
    \/ ~Replying /\ \E p \in Procs : MeStart(p)
    \/ ~Replying /\ \E p \in Procs : MeAuthenticate(p)
    \/ ~Replying /\ \E p \in Procs : MeReply(p)

SpecProfile == Init /\ [][ProfileNext]_vars

\* ------------------------------------------------------------ user service
UserKey(userId) == <<"user", userId>>

\* The value a service method resolves to: a user, or null (NoRow).
returned(user) == [NoResp EXCEPT !.msg = "returned", !.user = user]

\* Emails a caller may pass: the seeded ones and one more.
CallerEmails == Emails \cup {"e3"}

\* UserService.getUserById(userId).
GetUserByIdStart(p) ==
    \E u \in Users :
        Start(p, [NoReq EXCEPT !.op = "getUserById", !.id = u], "byid1")

\* redis.get(user:{userId}): a hit is parsed and returned.
GetUserByIdCached(p) ==
    /\ pc[p] = "byid1"
    /\ \/ Finish(p, returned(NoRow), TRUE)
       \/ IF RedisHas(UserKey(req[p].id)) THEN
             Finish(p, returned(redis[UserKey(req[p].id)].val), FALSE)
          ELSE
             /\ pc' = [pc EXCEPT ![p] = "byid2"]
             /\ UNCHANGED <<loc, resp, faulted>>
    /\ UNCHANGED <<db, redis, now, req, events, issued, vissued,
                   revoked, okVerify, rejects, env, okRefresh, logs,
                   srv, halted, eventStore>>

\* prisma.user.findUnique({id}): null is returned as it is.
GetUserByIdFind(p) ==
    /\ pc[p] = "byid2"
    /\ \/ Finish(p, returned(NoRow), TRUE)
       \/ IF req[p].id \notin DOMAIN db THEN
             Finish(p, returned(NoRow), FALSE)
          ELSE
             /\ pc' = [pc EXCEPT ![p] = "byid3"]
             /\ loc' = [loc EXCEPT ![p] = db[req[p].id]]
             /\ UNCHANGED <<resp, faulted>>
    /\ UNCHANGED <<db, redis, now, req, events, issued, vissued,
                   revoked, okVerify, rejects, env, okRefresh, logs,
                   srv, halted, eventStore>>

\* redis.set(user:{userId}, user, EX 3600), then the user is returned.
GetUserByIdCache(p) ==
    /\ pc[p] = "byid3"
    /\ \/ /\ Finish(p, returned(NoRow), TRUE)
          /\ UNCHANGED redis
       \/ /\ redis' = RedisSet(redis, UserKey(req[p].id), loc[p],
                               UserCacheTTL)
          /\ Finish(p, returned(loc[p]), FALSE)
    /\ UNCHANGED <<db, now, req, events, issued, vissued, revoked,
                   okVerify, rejects, env, okRefresh, logs, srv,
                   halted, eventStore>>

\* UserService.getUserByEmail(email).
GetUserByEmailStart(p) ==
    \E e \in CallerEmails :
        Start(p, [NoReq EXCEPT !.op = "getUserByEmail", !.email = e],
              "byemail1")

\* redis.get(user:email:{email}): a hit is parsed and returned.
GetUserByEmailCached(p) ==
    /\ pc[p] = "byemail1"
    /\ \/ Finish(p, returned(NoRow), TRUE)
       \/ IF RedisHas(UserEmailKey(req[p].email)) THEN
             Finish(p, returned(redis[UserEmailKey(req[p].email)].val), FALSE)
          ELSE
             /\ pc' = [pc EXCEPT ![p] = "byemail2"]
             /\ UNCHANGED <<loc, resp, faulted>>
    /\ UNCHANGED <<db, redis, now, req, events, issued, vissued,
                   revoked, okVerify, rejects, env, okRefresh, logs,
                   srv, halted, eventStore>>

\* prisma.user.findUnique({email}).
GetUserByEmailFind(p) ==
    /\ pc[p] = "byemail2"
    /\ \/ Finish(p, returned(NoRow), TRUE)
       \/ IF FindByEmail(req[p].email) = {} THEN
             Finish(p, returned(NoRow), FALSE)
          ELSE
             /\ pc' = [pc EXCEPT ![p] = "byemail3"]
             /\ loc' = [loc EXCEPT ![p] =
                           db[CHOOSE u \in FindByEmail(req[p].email) : TRUE]]
             /\ UNCHANGED <<resp, faulted>>
    /\ UNCHANGED <<db, redis, now, req, events, issued, vissued,
                   revoked, okVerify, rejects, env, okRefresh, logs,
                   srv, halted, eventStore>>

\* redis.set(user:email:{email}, user, EX 3600), then the user is returned.
GetUserByEmailCache(p) ==
    /\ pc[p] = "byemail3"
    /\ \/ /\ Finish(p, returned(NoRow), TRUE)
          /\ UNCHANGED redis
       \/ /\ redis' = RedisSet(redis, UserEmailKey(req[p].email), loc[p],
                               UserCacheTTL)
          /\ Finish(p, returned(loc[p]), FALSE)
    /\ UNCHANGED <<db, now, req, events, issued, vissued, revoked,
                   okVerify, rejects, env, okRefresh, logs, srv,
                   halted, eventStore>>

\* UserService.updateUser(userId, data): data.email is a new address or
\* absent ("none"); the other fields of data are not columns of the model.
UpdateUserStart(p) ==
    \E u \in Users, e \in CallerEmails \cup {"none"} :
        Start(p, [NoReq EXCEPT !.op = "updateUser", !.id = u, !.email = e],
              "update1")

\* prisma.user.update({id}, data): throws for a missing row and for an
\* email another row holds (the column is unique); an absent data.email
\* leaves the column as it is.
UpdateUserStore(p) ==
    /\ pc[p] = "update1"
    /\ LET u == req[p].id
           e == req[p].email
       IN \/ /\ Finish(p, returned(NoRow), TRUE)
             /\ UNCHANGED db
          \/ IF u \notin DOMAIN db \/ (FindByEmail(e) \ {u}) # {} THEN
                /\ Finish(p, returned(NoRow), FALSE)
                /\ UNCHANGED db
             ELSE
                /\ db' = IF e = "none" THEN db
                         ELSE [db EXCEPT ![u].email = e]
                /\ pc' = [pc EXCEPT ![p] = "update2"]
                /\ loc' = [loc EXCEPT ![p] = db'[u]]
                /\ UNCHANGED <<resp, faulted>>
    /\ UNCHANGED <<redis, now, req, events, issued, vissued, revoked,
                   okVerify, rejects, env, okRefresh, logs, srv,
                   halted, eventStore>>

\* The cache entries updateUser deletes once the row is written:
\* user:{userId} first, ...
invalidateUser(r, userId) == RedisDel(r, UserKey(userId))

\* ... then user:email:{data.email}.
invalidateEmail(r, email) == RedisDel(r, UserEmailKey(email))

\* redis.del(user:{userId}); without data.email the user is returned.
UpdateUserInvalidate(p) ==
    /\ pc[p] = "update2"
    /\ \/ /\ Finish(p, returned(NoRow), TRUE)
          /\ UNCHANGED redis
       \/ /\ redis' = invalidateUser(redis, req[p].id)
          /\ IF req[p].email = "none" THEN
                Finish(p, returned(loc[p]), FALSE)
             ELSE
                /\ pc' = [pc EXCEPT ![p] = "update3"]
                /\ UNCHANGED <<loc, resp, faulted>>
    /\ UNCHANGED <<db, now, req, events, issued, vissued, revoked,
                   okVerify, rejects, env, okRefresh, logs, srv,
                   halted, eventStore>>

\* if (data.email) redis.del(user:email:{data.email}); the user is returned.
UpdateUserInvalidateEmail(p) ==
    /\ pc[p] = "update3"
    /\ \/ /\ Finish(p, returned(NoRow), TRUE)
          /\ UNCHANGED redis
       \/ /\ redis' = invalidateEmail(redis, req[p].email)
          /\ Finish(p, returned(loc[p]), FALSE)
    /\ UNCHANGED <<db, now, req, events, issued, vissued, revoked,
                   okVerify, rejects, env, okRefresh, logs, srv,
                   halted, eventStore>>

\* Seeded users, reads through the cache, updates, and the clock passing
\* the cached users' hour.
UserCacheNext ==
    \/ \E p \in Procs : Return(p)
    \/ ~Replying /\ \E u \in Users : SeedUser(u, RoleOf(u))
    \/ ~Replying /\ Tick(UserCacheTTL)
    \/ ~Replying /\ \E p \in Procs : GetUserByIdStart(p)
    \/ ~Replying /\ \E p \in Procs : GetUserByIdCached(p)
    \/ ~Replying /\ \E p \in Procs : GetUserByIdFind(p)
    \/ ~Replying /\ \E p \in Procs : GetUserByIdCache(p)
    \/ ~Replying /\ \E p \in Procs : GetUserByEmailStart(p)
    \/ ~Replying /\ \E p \in Procs : GetUserByEmailCached(p)
    \/ ~Replying /\ \E p \in Procs : GetUserByEmailFind(p)
    \/ ~Replying /\ \E p \in Procs : GetUserByEmailCache(p)
    \/ ~Replying /\ \E p \in Procs : UpdateUserStart(p)
    \/ ~Replying /\ \E p \in Procs : UpdateUserStore(p)
    \/ ~Replying /\ \E p \in Procs : UpdateUserInvalidate(p)
    \/ ~Replying /\ \E p \in Procs : UpdateUserInvalidateEmail(p)

SpecUserCache == Init /\ [][UserCacheNext]_vars

\* ------------------------------------------------------- process lifecycle
\* process.exit(code): nothing runs afterwards.
Running == srv.exit = -1

\* Server.#setupDatabase: $connect() has settled.  A rejection reaches the
\* catch of index.ts, which exits with 1; otherwise the Redis client is
\* created and setup awaits redis.connect().
SetupDatabase ==
    /\ Running /\ srv.setup = "connectDb"
    /\ \/ srv' = [srv EXCEPT !.exit = 1]
       \/ srv' = [srv EXCEPT !.setup = "connectRedis",
                             !.prisma = IF @ = "connecting" THEN "open" ELSE @,
                             !.redis = "connecting"]
    /\ UNCHANGED <<db, redis, now, pc, req, loc, resp, faulted, events,
                   issued, vissued, revoked, okVerify, rejects, env,
                   okRefresh, logs, halted, eventStore>>

\* Server.#setupDatabase: redis.connect() has settled; on success the
\* middlewares and routes are registered and start() listens.
SetupRedis ==
    /\ Running /\ srv.setup = "connectRedis"
    /\ \/ srv' = [srv EXCEPT !.exit = 1]
       \/ srv' = [srv EXCEPT !.setup = "listening",
                             !.redis = IF @ = "connecting" THEN "open" ELSE @]
    /\ UNCHANGED <<db, redis, now, pc, req, loc, resp, faulted, events,
                   issued, vissued, revoked, okVerify, rejects, env,
                   okRefresh, logs, halted, eventStore>>

\* SIGTERM or SIGINT: process.on(..) calls shutdown_handler, which runs
\* Server.shutdown up to its first await: this.prisma is set, so
\* $disconnect() is called.
Signal ==
    /\ Running /\ events < MaxEvents
    /\ events' = events + 1
    /\ srv' = [srv EXCEPT !.h[events + 1] = "disconnect",
                          !.prisma = IF @ \in {"connecting", "open"}
                                     THEN "closing" ELSE @]
    /\ UNCHANGED <<db, redis, now, pc, req, loc, resp, faulted,
                   issued, vissued, revoked, okVerify, rejects, env,
                   okRefresh, logs, halted, eventStore>>

\* redis.isOpen as Server.shutdown reads it.  The client is open from
\* connect() on; once quit() was called and until the socket is gone the
\* library may report either value.
IsOpen ==
    CASE srv.redis \in {"connecting", "open"} -> {TRUE}
      [] srv.redis = "closing" -> {TRUE, FALSE}
      [] OTHER -> {FALSE}

\* Server.shutdown after $disconnect() settled.  A rejection is rethrown and
\* shutdown_handler exits with 1.  Otherwise, if this.redis is set and
\* open, quit() is called; if not, shutdown returns and shutdown_handler
\* exits with 0.
shutdown_quits(open) == srv.redis # "null" /\ open

Disconnected(i) ==
    /\ Running /\ srv.h[i] = "disconnect"
    /\ \/ srv' = [srv EXCEPT !.exit = 1]
       \/ \E open \in IsOpen :
             IF shutdown_quits(open) THEN
                srv' = [srv EXCEPT !.prisma = "closed", !.h[i] = "quit",
                                   !.redis = "closing"]
             ELSE
                srv' = [srv EXCEPT !.prisma = "closed", !.h[i] = "exited",
                                   !.exit = 0]
    /\ UNCHANGED <<db, redis, now, pc, req, loc, resp, faulted, events,
                   issued, vissued, revoked, okVerify, rejects, env,
                   okRefresh, logs, halted, eventStore>>

\* Server.shutdown after quit() settled: a rejection (the client was
\* already closed by another quit, the connection failed) exits with 1, a
\* reply means the connection is closed and shutdown_handler exits with 0.
Quitted(i) ==
    /\ Running /\ srv.h[i] = "quit"
    /\ \/ srv' = [srv EXCEPT !.exit = 1]
       \/ srv' = [srv EXCEPT !.redis = "closed", !.h[i] = "exited",
                             !.exit = 0]
    /\ UNCHANGED <<db, redis, now, pc, req, loc, resp, faulted, events,
                   issued, vissued, revoked, okVerify, rejects, env,
                   okRefresh, logs, halted, eventStore>>

ShutdownNext ==
    \/ SetupDatabase
    \/ SetupRedis
    \/ Signal
    \/ \E i \in Handlers : Disconnected(i)
    \/ \E i \in Handlers : Quitted(i)

SpecShutdown == Init /\ [][ShutdownNext]_vars

\* The awaited promises of the two clients settle.
FairShutdown ==
    /\ SpecShutdown
    /\ \A i \in Handlers : WF_vars(Disconnected(i)) /\ WF_vars(Quitted(i))

\* ----------------------------------------------------------- event service
\* An omitted skip or take (undefined in the source) is -1 here.
Undefined == -1

\* The store holds eventStore events; event i is the i-th by date and has i
\* registrations.  seedEvents fills an empty store.
EventCounts == {1, DefaultTake + 1}

SeedEvents(n) ==
    /\ eventStore = 0
    /\ eventStore' = n
    /\ UNCHANGED <<db, redis, now, pc, req, loc, resp, faulted, events,
                   issued, vissued, revoked, okVerify, rejects, env,
                   okRefresh, logs, srv, halted>>

\* x || d of the source: d for an omitted x and for 0.
OrElse(x, d) == IF x = Undefined \/ x = 0 THEN d ELSE x

\* `events:all:${skip || 0}:${take || 100}` and
\* `events:registrations:${order}:${skip || 0}:${take || 100}`.
eventsCacheKey(kind, order, skip, take) ==
    <<kind, order, OrElse(skip, 0), OrElse(take, DefaultTake)>>

Min(a, b) == IF a < b THEN a ELSE b

\* prisma.event.findMany({skip, take, orderBy}): the ordered rows from
\* position skip on (from the first without skip), take of them (all of
\* them without take).
findMany(order, skip, take) ==
    LET n == eventStore
        first == IF skip = Undefined THEN 1 ELSE skip + 1
        last == IF take = Undefined THEN n ELSE Min(n, first + take - 1)
    IN [i \in 1..(IF last < first THEN 0 ELSE last - first + 1) |->
          IF order = "desc" THEN n + 1 - (first + i - 1) ELSE first + i - 1]

Skips == {Undefined, 1}
Takes == {Undefined, 0, DefaultTake}

\* EventService.getAllEvents(skip, take), as GET /events calls it.
GetAllEventsStart(p) ==
    \E s \in Skips, t \in Takes :
        Start(p, [NoReq EXCEPT !.op = "events:all", !.skip = s, !.take = t],
              "events1")

\* EventService.getEventsByRegistrations(order, skip, take), as
\* GET /events/dashboard/registrations calls it.
GetEventsByRegistrationsStart(p) ==
    \E o \in {"asc", "desc"}, s \in Skips, t \in Takes :
        Start(p, [NoReq EXCEPT !.op = "events:registrations", !.order = o,
                               !.skip = s, !.take = t],
              "events1")

EventsKeyOf(r) == eventsCacheKey(r.op, r.order, r.skip, r.take)

\* The list a method resolves to (null is <<>> with another msg).
listed(l) == [NoResp EXCEPT !.msg = "listed", !.list = l]

\* redis.get(cacheKey): a hit is parsed and returned.
EventsCached(p) ==
    /\ pc[p] = "events1"
    /\ \/ Finish(p, returned(NoRow), TRUE)
       \/ IF RedisHas(EventsKeyOf(req[p])) THEN
             Finish(p, listed(redis[EventsKeyOf(req[p])].val), FALSE)
          ELSE
             /\ pc' = [pc EXCEPT ![p] = "events2"]
             /\ UNCHANGED <<loc, resp, faulted>>
    /\ UNCHANGED <<db, redis, now, req, events, issued, vissued, revoked,
                   okVerify, rejects, env, okRefresh, logs, srv, halted,
                   eventStore>>

\* prisma.event.findMany, then redis.set(cacheKey, events, EX 300 or 180)
\* once the rows are there; the rows are returned.
EventsFind(p) ==
    /\ pc[p] = "events2"
    /\ \/ Finish(p, returned(NoRow), TRUE)
       \/ /\ pc' = [pc EXCEPT ![p] = "events3"]
          /\ resp' = [resp EXCEPT ![p] =
                        listed(findMany(req[p].order, req[p].skip,
                                        req[p].take))]
          /\ UNCHANGED <<loc, faulted>>
    /\ UNCHANGED <<db, redis, now, req, events, issued, vissued, revoked,
                   okVerify, rejects, env, okRefresh, logs, srv, halted,
                   eventStore>>

EventsCache(p) ==
    /\ pc[p] = "events3"
    /\ \/ /\ Finish(p, returned(NoRow), TRUE)
          /\ UNCHANGED redis
       \/ /\ redis' = RedisSet(redis, EventsKeyOf(req[p]), resp[p].list,
                               IF req[p].op = "events:all" THEN EventsTTL
                               ELSE RegistrationsTTL)
          /\ Finish(p, resp[p], FALSE)
    /\ UNCHANGED <<db, now, req, events, issued, vissued, revoked,
                   okVerify, rejects, env, okRefresh, logs, srv, halted,
                   eventStore>>

EventsNext ==
    \/ \E p \in Procs : Return(p)
    \/ ~Replying /\ \E n \in EventCounts : SeedEvents(n)
    \/ ~Replying /\ Tick(RegistrationsTTL)
    \/ ~Replying /\ \E p \in Procs : GetAllEventsStart(p)
    \/ ~Replying /\ \E p \in Procs : GetEventsByRegistrationsStart(p)
    \/ ~Replying /\ \E p \in Procs : EventsCached(p)
    \/ ~Replying /\ \E p \in Procs : EventsFind(p)
    \/ ~Replying /\ \E p \in Procs : EventsCache(p)

SpecEvents == Init /\ [][EventsNext]_vars

\* ------------------------------------------------------ session lifetime
\* The session operations of the seeded user, with the clock moving around
\* the 30-day boundary.
SessionNext ==
    \/ \E p \in Procs : Return(p)
    \/ ~Replying /\ \E u \in SeedUsers : SeedUser(u, RoleOf(u))
    \/ ~Replying /\ \E d \in SessionTickSteps : Tick(d)
    \/ ~Replying /\ \E p \in Procs : LoginStart(p)
    \/ ~Replying /\ \E p \in Procs : LoginFind(p)
    \/ ~Replying /\ \E p \in Procs : LoginIssue(p)
    \/ ~Replying /\ \E p \in Procs : RefreshStart(p)
    \/ ~Replying /\ \E p \in Procs : RefreshLookup(p)
    \/ ~Replying /\ \E p \in Procs : RefreshMint(p)
    \/ ~Replying /\ \E p \in Procs : LogoutStart(p)
    \/ ~Replying /\ \E p \in Procs : Logout(p)

SpecSession == Init /\ [][SessionNext]_vars

\* ------------------------------------------------- verification lifetime
\* Registration, verification and resend, with the clock moving around the
\* 24-hour boundary.
VerificationNext ==
    \/ \E p \in Procs : Return(p)
    \/ ~Replying /\ \E u \in RegUsers : registerUser(u, RoleOf(u))
    \/ ~Replying /\ \E d \in VerificationTickSteps : Tick(d)
    \/ ~Replying /\ \E p \in Procs : VerifyStart(p)
    \/ ~Replying /\ \E p \in Procs : VerifyLookup(p)
    \/ ~Replying /\ \E p \in Procs : VerifyUpdate(p)
    \/ ~Replying /\ \E p \in Procs : VerifyDelete(p)
    \/ ~Replying /\ \E p \in Procs : ResendStart(p)
    \/ ~Replying /\ \E p \in Procs : ResendCacheGet(p)
    \/ ~Replying /\ \E p \in Procs : ResendFind(p)
    \/ ~Replying /\ \E p \in Procs : ResendGenerate(p)
    \/ ~Replying /\ \E p \in Procs : ResendEmail(p)

SpecVerification == Init /\ [][VerificationNext]_vars

\* ------------------------------------------------------------- properties
Done(p, op) == pc[p] = "done" /\ req[p].op = op

\* C1: a refresh request whose store and cache calls all answer gets a new
\* access token exactly when the presented token is signed with the refresh
\* secret and unexpired, equals the value cached under refresh_token:{id} of
\* its embedded id, and that id's row exists and is verified; otherwise it
\* gets the 401 rejection.
C1_RefreshIff ==
    [][\A p \in Procs :
        /\ (pc[p] = "refresh1" /\ pc'[p] # "refresh1" /\ ~faulted'[p]) =>
              LET t == req[p].tok
                  k == <<"refresh_token", t.id>>
                  accepted == /\ t.sec = JwtRefreshSecret
                              /\ now < t.exp
                              /\ k \in DOMAIN redis
                              /\ now < redis[k].exp
                              /\ redis[k].val = t
              IN IF accepted THEN pc'[p] = "refresh2"
                 ELSE pc'[p] = "done" /\ resp'[p].status = 401
                      /\ resp'[p].access = NoJwt
        /\ (pc[p] = "refresh2" /\ pc'[p] # "refresh2" /\ ~faulted'[p]) =>
              LET id == req[p].tok.id
                  live == id \in DOMAIN db /\ db[id].is_verified
              IN IF live THEN /\ resp'[p].status = 200
                              /\ resp'[p].access.sec = JwtSecret
                              /\ resp'[p].access.id = id
                              /\ resp'[p].access.iat = now
                 ELSE resp'[p].status = 401 /\ resp'[p].access = NoJwt
      ]_vars

C1_Witness ==
    \E p \in Procs : Done(p, "refresh") /\ resp[p].status = 200

\* C2: a successful login sent after an earlier login of the same user has
\* returned gets a refresh token different from the earlier ones, whatever
\* the time between them, and an earlier login's token is then rejected by
\* refresh.
C2_SuccessiveLoginsDiffer ==
    [][/\ \A p \in Procs :
            (/\ pc[p] = "login2" /\ pc'[p] = "done" /\ resp'[p].status = 200
             /\ req[p].note = "again")
            => resp'[p].refresh \notin issued
       /\ \A p \in Procs :
            (/\ pc[p] = "refresh1" /\ pc'[p] # "refresh1"
             /\ req[p].tok \in issued
             /\ \E t \in issued : t.id = req[p].tok.id /\ t.iat > req[p].tok.iat)
            => (pc'[p] = "done" /\ resp'[p].status = 401)
      ]_vars

\* C3: once a logout of u has deleted u's session and no login of u has
\* written one since, a refresh that presents the deleted token is rejected.
C3_RefreshAfterLogoutRejected ==
    [][\A p \in Procs :
        (/\ pc[p] = "refresh1" /\ pc'[p] # "refresh1"
         /\ req[p].tok.id \in Users
         /\ req[p].tok = revoked[req[p].tok.id])
        => (pc'[p] = "done" /\ resp'[p].status = 401)
      ]_vars

C3_Witness ==
    \E p \in Procs :
        /\ Done(p, "refresh") /\ req[p].note = "revoked" /\ ~faulted[p]
        /\ req[p].tok = revoked[req[p].tok.id]
        /\ resp[p].status = 401

\* C4: a login that finds an unverified row is rejected whatever the
\* password, and no session is cached for an unverified user.
C4_UnverifiedLoginRejected ==
    [][\A p \in Procs : \A u \in DOMAIN db :
        (/\ pc[p] = "login1" /\ pc'[p] # "login1"
         /\ db[u].email = req[p].email /\ ~db[u].is_verified)
        => /\ pc'[p] = "done" /\ resp'[p].status = 401
           /\ resp'[p].refresh = NoJwt
           /\ <<"refresh_token", u>> \notin DOMAIN redis'
      ]_vars

C4_Witness ==
    \E p \in Procs : \E u \in DOMAIN db :
        /\ Done(p, "login") /\ ~faulted[p]
        /\ db[u].email = req[p].email /\ ~db[u].is_verified
        /\ req[p].pw = PwOf(u)
        /\ resp[p].status = 401

\* C5: a login with the right password that finds a verified row, and whose
\* store and cache calls answer, succeeds, and when it returns the value
\* under refresh_token:{id} is the refresh token it returns.
C5_LoginCachesReturnedToken ==
    [][\A p \in Procs :
        /\ \A u \in DOMAIN db :
            (/\ pc[p] = "login1" /\ pc'[p] # "login1" /\ ~faulted'[p]
             /\ db[u].email = req[p].email /\ db[u].is_verified
             /\ req[p].pw = PwOf(u))
            => pc'[p] = "login2"
        /\ (pc[p] = "login2" /\ pc'[p] # "login2" /\ ~faulted'[p]) =>
              LET k == <<"refresh_token", loc[p].id>> IN
              /\ resp'[p].status = 200
              /\ resp'[p].refresh.sec = JwtRefreshSecret
              /\ resp'[p].refresh.id = loc[p].id
              /\ k \in DOMAIN redis'
              /\ now < redis'[k].exp
              /\ redis'[k].val = resp'[p].refresh
      ]_vars

C5_Witness ==
    \E p \in Procs :
        /\ Done(p, "login") /\ resp[p].status = 200
        /\ redis[<<"refresh_token", resp[p].refresh.id>>].val = resp[p].refresh

\* C6: a verification sent after a verification with the same token has
\* returned success is rejected, and the user that the first one verified
\* stays verified.
C6_VerifyOnce ==
    /\ \A p \in Procs :
          (Done(p, "verify") /\ req[p].note = "late") => resp[p].status = 400
    /\ \A u \in Users : \A i \in 1..Len(vissued[u]) :
          vissued[u][i] \in okVerify => db[u].is_verified

C6_Witness ==
    \E p \in Procs :
        /\ Done(p, "verify") /\ req[p].note = "late" /\ ~faulted[p]
        /\ resp[p].status = 400
        /\ \E u \in Users : db[u].is_verified /\ \E i \in 1..Len(vissued[u]) :
               vissued[u][i] = req[p].vtok

\* C7: of two verifications with the same token that run concurrently
\* (neither was sent after the other returned), at most one returns success:
\* when a verification sent before any success with its token returns
\* success, no other verification with that token has returned success.
C7_ConcurrentVerifyAtMostOne ==
    [][\A p \in Procs :
        (/\ pc[p] = "verify3" /\ pc'[p] = "done" /\ resp'[p].status = 200
         /\ req[p].note # "late")
        => req[p].vtok \notin okVerify
      ]_vars

\* C8: at any time at most one verification token per user is one that
\* verifyEmail would accept.
C8_OneValidTokenPerUser ==
    \A u \in Users :
        Cardinality({k \in DOMAIN redis :
                        /\ k[1] = "verification"
                        /\ now < redis[k].exp
                        /\ redis[k].val = u}) <= 1

\* C9: a resend for a user whose stored row is verified when the request is
\* sent answers "Email already verified" and issues no token.
C9_ResendVerifiedNoToken ==
    \A p \in Procs :
        (Done(p, "resend") /\ req[p].note = "verified" /\ ~faulted[p])
        => resp[p].msg = "Email already verified"

\* C10: a login, refresh, verification or resend during which the store or
\* the cache failed answers with an infrastructure error, never with the
\* rejection for invalid credentials, invalid token or unknown user.
C10_FaultIsNotRejection ==
    \A p \in Procs :
        (/\ pc[p] = "done" /\ faulted[p]
         /\ req[p].op \in {"login", "refresh", "verify", "resend"})
        => /\ resp[p].status = 500
           /\ resp[p].msg \notin {"Invalid email or password",
                                  "Invalid or expired refresh token",
                                  "Invalid or expired verification token",
                                  "User not found"}

\* Keys whose value differs between cache r and cache s.
C11_Changed(r, s) ==
    {k \in DOMAIN r \cup DOMAIN s :
        \/ k \notin DOMAIN r
        \/ k \notin DOMAIN s
        \/ r[k] # s[k]}

\* C11 as stated: every key in the cache is refresh:{userId} or
\* verification:{token}.
C11_KeysAsStated ==
    \A k \in DOMAIN redis : k[1] \in {"refresh", "verification"}

\* C11 amended: every key in the cache is refresh_token:{userId} of a stored
\* user, verification:{token} of an issued token or, written by the resend
\* route's user lookup, user:email:{email}; a successful login writes only
\* refresh_token:{id} of the user it returns a token for, a refresh goes on
\* to mint only when that same key holds the presented token, and a
\* successful logout by that user leaves that same key absent and touches
\* no other.
C11_SessionKey ==
    [][/\ \A k \in DOMAIN redis' :
            \/ k[1] = "refresh_token" /\ k[2] \in DOMAIN db'
            \/ k[1] = "verification" /\ k[2] \in Flatten(vissued')
            \/ k[1] = "user:email" /\ k[2] \in Emails
       /\ \A p \in Procs :
            /\ (pc[p] = "login2" /\ pc'[p] = "done" /\ resp'[p].status = 200)
               => /\ C11_Changed(redis, redis')
                        \subseteq {<<"refresh_token", resp'[p].refresh.id>>}
                  /\ <<"refresh_token", resp'[p].refresh.id>> \in DOMAIN redis'
            /\ (pc[p] = "refresh1" /\ pc'[p] = "refresh2")
               => /\ <<"refresh_token", req[p].tok.id>> \in DOMAIN redis
                  /\ redis[<<"refresh_token", req[p].tok.id>>].val = req[p].tok
                  /\ redis' = redis
            /\ (pc[p] = "logout1" /\ pc'[p] = "done" /\ resp'[p].status = 200)
               => /\ C11_Changed(redis, redis')
                        \subseteq {<<"refresh_token", req[p].tok.id>>}
                  /\ <<"refresh_token", req[p].tok.id>> \notin DOMAIN redis'
      ]_vars

\* A logout has returned success for a user whose login had cached a
\* session, and the session key is gone.
C11_Witness ==
    \E p \in Procs :
        /\ Done(p, "logout") /\ resp[p].status = 200
        /\ revoked[req[p].tok.id] # NoJwt
        /\ <<"refresh_token", req[p].tok.id>> \notin DOMAIN redis

\* C12: any two logins rejected by a check (no such email, unverified row,
\* wrong password) were sent the same reply, and a login rejected by a check
\* leaves store and cache as they were, so replies and end states of two
\* rejections from one state coincide whichever check failed.
C12_LoginRejectionsAlike ==
    [][/\ \A a, b \in rejects' : a.reply = b.reply
       /\ \A p \in Procs :
            (pc[p] = "login1" /\ pc'[p] = "done" /\ ~faulted'[p])
            => /\ \E a \in rejects' : resp'[p] = a.reply
               /\ resp'[p].access = NoJwt /\ resp'[p].refresh = NoJwt
               /\ db' = db
               /\ redis' = redis
      ]_vars

\* Logins have been rejected for each of the three reasons.
C12_Witness ==
    {a.reason : a \in rejects} =
        {"non-existent email", "unverified email", "Invalid password"}

\* C13: a row created with role SUPER_ADMIN, DOMAIN_LEAD or CHECKIN_CREW is
\* verified when it is created.
C13_PrivilegedCreatedVerified ==
    [][\A u \in (DOMAIN db') \ (DOMAIN db) :
          db'[u].role \in {"SUPER_ADMIN", "DOMAIN_LEAD", "CHECKIN_CREW"}
          => db'[u].is_verified
      ]_vars

\* C14: under every environment, the refresh token a login returns does not
\* pass verifyToken and the access token it returns does not pass
\* verifyRefreshToken; a request that presents a refresh token as Bearer
\* token is answered 401 by authenticate, and a refresh that presents an
\* access token is rejected.
C14_TokenClassesDisjoint ==
    [][\A p \in Procs :
        /\ (pc[p] = "login2" /\ pc'[p] = "done" /\ resp'[p].status = 200)
           => /\ ~verifyToken(resp'[p].refresh, now)
              /\ ~verifyRefreshToken(resp'[p].access, now)
        /\ (pc[p] = "logout1" /\ pc'[p] = "done" /\ req[p].tok \in issued)
           => resp'[p].status = 401
        /\ (pc[p] = "refresh1" /\ pc'[p] # "refresh1"
            /\ \E r \in issued : req[p].tok = AccessOf(r))
           => (pc'[p] = "done" /\ resp'[p].status = 401)
      ]_vars

\* C15: authenticate answers 401 exactly when the Bearer token is not
\* signed with the access secret or the clock has reached its exp, whatever
\* the cache and the store hold: a token is still let through after a
\* logout or a newer login of its user, up to its expiry.
C15_AuthenticateStateless ==
    [][\A p \in Procs :
        (pc[p] = "logout1" /\ pc'[p] = "done") =>
           LET t == req[p].tok
               valid == t.sec = JwtSecret /\ now < t.iat + AccessTokenTTL
           IN IF valid THEN resp'[p].msg \in {"Logged out successfully",
                                               "Logout failed"}
              ELSE /\ resp'[p].status = 401
                   /\ resp'[p].msg = "Invalid or expired token"
      ]_vars

\* A request with an access token whose user had no session left when it
\* was sent has passed authenticate.
C15_Witness ==
    \E p \in Procs :
        /\ Done(p, "logout") /\ req[p].note = "no session"
        /\ req[p].tok.sec = JwtSecret
        /\ revoked[req[p].tok.id] # NoJwt
        /\ resp[p].status = 200

\* C16: the refresh token a login returns is dated with the login's second;
\* a refresh passes the token and cache check only less than 2,592,000
\* seconds after that; and while fewer than 2,592,000 seconds have passed
\* since the latest login of a user and no logout has deleted the session
\* since, the cache holds that login's token.
C16_SessionLifetimesAgree ==
    [][/\ \A p \in Procs :
            /\ (pc[p] = "login2" /\ pc'[p] = "done" /\ resp'[p].status = 200)
               => resp'[p].refresh.iat = now
            /\ (pc[p] = "refresh1" /\ pc'[p] = "refresh2")
               => now < req[p].tok.iat + 2592000
       /\ \A t \in issued' :
            (/\ now' < t.iat + 2592000
             /\ revoked'[t.id] = NoJwt
             /\ \A o \in issued' : o.id = t.id => o.iat <= t.iat)
            => /\ <<"refresh_token", t.id>> \in DOMAIN redis'
               /\ now' < redis'[<<"refresh_token", t.id>>].exp
               /\ redis'[<<"refresh_token", t.id>>].val = t
      ]_vars

\* A refresh sent in the last second of the 30 days has succeeded.
C16_Witness ==
    \E p \in Procs :
        /\ Done(p, "refresh") /\ resp[p].status = 200
        /\ now = req[p].tok.iat + 2592000 - 1

C18_LastWriterWins ==
    [][\A p \in Procs :
        (/\ pc[p] = "login2" /\ pc'[p] = "done" /\ resp'[p].status = 200
         /\ req[p].note # "again"
         /\ \E t \in issued : t.id = loc[p].id)
        => LET k == <<"refresh_token", loc[p].id>> IN
           /\ k \in DOMAIN redis'
           /\ redis'[k].val = resp'[p].refresh
           /\ \A t \in issued : t.id = loc[p].id => redis'[k].val # t
      ]_vars

\* Tokens issued to u that are no longer in the cache because they were
\* consumed, and because their 24 hours ran out.
C19_Consumed(u) ==
    {vissued[u][i] : i \in 1..Len(vissued[u])} \cap okVerify

C19_Expired(u) ==
    {tk \in {vissued[u][i] : i \in 1..Len(vissued[u])} :
        /\ tk \notin okVerify
        /\ ~(<<"verification", tk>> \in DOMAIN redis
             /\ now < redis[<<"verification", tk>>].exp)}

\* The user lookup of a resend for p's email has ended without a failure.
C19_Looked(p) ==
    /\ pc[p] \in {"resend1", "resend2"}
    /\ pc'[p] \notin {"resend1", "resend2"}
    /\ ~faulted'[p]

C20_VerifyOnlyUnverified ==
    [][\A p \in Procs :
        LET k == <<"verification", req[p].vtok>> IN
        (/\ pc[p] = "verify1" /\ pc'[p] # "verify1"
         /\ k \in DOMAIN redis /\ now < redis[k].exp
         /\ redis[k].val \in DOMAIN db
         /\ db[redis[k].val].is_verified)
        => (pc'[p] = "done" /\ resp'[p].status = 400)
      ]_vars

\* C21: no step of a refresh changes the cache or the store, whether it
\* ends in success or in rejection, and a refresh with a token that has
\* already refreshed is accepted again as long as the cache still holds
\* the token and the token is unexpired.
C21_RefreshNeverWrites ==
    [][\A p \in Procs :
        /\ (pc[p] \in {"refresh1", "refresh2"} /\ pc'[p] # pc[p])
           => (redis' = redis /\ db' = db)
        /\ (/\ pc[p] = "refresh1" /\ pc'[p] # "refresh1" /\ ~faulted'[p]
            /\ req[p].tok \in okRefresh
            /\ now < req[p].tok.exp
            /\ <<"refresh_token", req[p].tok.id>> \in DOMAIN redis
            /\ redis[<<"refresh_token", req[p].tok.id>>].val = req[p].tok)
           => pc'[p] = "refresh2"
      ]_vars

\* A refresh sent after a refresh with the same token had succeeded has
\* succeeded too, and the cache still holds the token.
C21_Witness ==
    \E p \in Procs :
        /\ Done(p, "refresh") /\ req[p].note = "repeat"
        /\ resp[p].status = 200
        /\ redis[<<"refresh_token", req[p].tok.id>>].val = req[p].tok

\* C22: the handler behind authenticate and authorize(R) is entered only by
\* a request with a Bearer token that is signed with the access secret,
\* unexpired and carries a role in R; a request without a Bearer header or
\* with a token that does not verify is answered 401, one with a verifying
\* token whose role is outside R is answered 403, and an exception inside a
\* middleware is answered 401 or 403; none of these enters the handler.
C22_GuardedHandler ==
    [][\A p \in Procs :
        (pc[p] = "guard1" /\ pc'[p] # "guard1") =>
           LET t == req[p].tok
               bearer == req[p].scheme = "Bearer"
               verifies == t.sec = JwtSecret /\ now < t.exp
           IN /\ pc'[p] = "handler"
                 => (bearer /\ verifies /\ t.role \in req[p].roles)
              /\ pc'[p] \in {"handler", "done"}
              /\ (pc'[p] = "done" /\ ~faulted'[p]) =>
                    /\ (~bearer \/ ~verifies) => resp'[p].status = 401
                    /\ (bearer /\ verifies) =>
                          (t.role \notin req[p].roles
                           /\ resp'[p].status = 403)
              /\ (pc'[p] = "done" /\ faulted'[p])
                 => resp'[p].status \in {401, 403}
      ]_vars

\* The handler has run for a request whose role is allowed.
C22_Witness ==
    \E p \in Procs :
        /\ Done(p, "guarded") /\ resp[p].msg = "handled"
        /\ req[p].tok.role \in req[p].roles

\* No reply body carries the password column of a row.
C23_NoHashInReply ==
    \A p \in Procs : pc[p] = "done" => resp[p].user.password = NoRow.password

\* No log line prints a password.
C23_NoPasswordLogged == \A l \in logs : l.password = ""

\* C23: no reply body (login, verify-email, /me) carries a password hash
\* and no log line (authentication, seeding) a raw password.
C23_NoPasswordDisclosed == C23_NoHashInReply /\ C23_NoPasswordLogged

\* What getUserById / getUserByEmail would read from the store for the key
\* of a cache entry.
C24_Stored(k) ==
    IF k[1] = "user" THEN
       (IF k[2] \in DOMAIN db THEN db[k[2]] ELSE NoRow)
    ELSE IF FindByEmail(k[2]) = {} THEN NoRow
    ELSE db[CHOOSE u \in FindByEmail(k[2]) : TRUE]

\* C24: when updateUser(u, data) has returned the user and no other call is
\* in flight, every live cached user entry of u (by id, by the previous
\* email, by the new email) equals what the store holds for its key, so
\* getUserById and getUserByEmail return the store's current record.
C24_NoStaleUserAfterUpdate ==
    \A p \in Procs :
        (/\ Done(p, "updateUser") /\ resp[p].user # NoRow
         /\ \A q \in Procs \ {p} : pc[q] = "idle")
        => \A k \in DOMAIN redis :
              (/\ k[1] \in {"user", "user:email"}
               /\ now < redis[k].exp
               /\ redis[k].val.id = req[p].id)
              => redis[k].val = C24_Stored(k)

\* C25: the process exits with code 0 only when the database client is
\* disconnected and no quit of the Redis client is still in flight, also
\* when the signal came during setup and when signals came again during
\* the shutdown.
C25_ExitZeroAfterBoth ==
    srv.exit = 0 => (srv.prisma = "closed" /\ srv.redis # "closing")

\* Once a signal was handled the process exits, given that the clients
\* answer.
C25_EventuallyExits ==
    (\E i \in Handlers : srv.h[i] # "idle") ~> (srv.exit # -1)

\* The verification tokens issued for user u.
C26_TokensOf(u) == {vissued[u][i] : i \in 1..Len(vissued[u])}

\* C26: a verification whose token was left in the cache by a VerifyEmail
\* that stopped between marking the user verified and deleting the entry
\* turns no user from unverified to verified, creates or replaces no
\* session, and changes no record of a user the token was not issued for.
C26_LeftoverTokenHarmless ==
    [][\A p \in Procs :
        (/\ pc[p] \in {"verify1", "verify2", "verify3"} /\ pc'[p] # pc[p]
         /\ req[p].note = "halted")
        => /\ \A u \in DOMAIN db : db'[u].is_verified => db[u].is_verified
           /\ \A u \in Users :
                 /\ (<<"refresh_token", u>> \in DOMAIN redis')
                    => (/\ <<"refresh_token", u>> \in DOMAIN redis
                        /\ redis'[<<"refresh_token", u>>]
                           = redis[<<"refresh_token", u>>])
           /\ \A u \in DOMAIN db :
                 db'[u] # db[u] => req[p].vtok \in C26_TokensOf(u)
      ]_vars

\* The leftover token was presented again and accepted.
C26_Witness ==
    \E p \in Procs :
        /\ Done(p, "verify") /\ req[p].note = "halted"
        /\ resp[p].status = 200

\* C27: a refresh session is cached only for a user the store holds as
\* verified; a user becomes verified only by the store update of a
\* VerifyEmail whose token was issued for that user; and no step turns
\* is_verified from true to false.
C27_SessionOnlyIfVerified ==
    /\ [](\A u \in Users :
            (<<"refresh_token", u>> \in DOMAIN redis)
            => (u \in DOMAIN db /\ db[u].is_verified))
    /\ [][\A u \in DOMAIN db :
            /\ db[u].is_verified => db'[u].is_verified
            /\ (~db[u].is_verified /\ db'[u].is_verified)
               => \E p \in Procs :
                     /\ pc[p] = "verify2" /\ pc'[p] = "verify3"
                     /\ loc[p].id = u
                     /\ req[p].vtok \in {vissued[u][i] :
                                           i \in 1..Len(vissued[u])}
         ]_vars

\* A user that was registered unverified has a session.
C27_Witness ==
    \E u \in RegUsers :
        /\ <<"refresh_token", u>> \in DOMAIN redis
        /\ Len(vissued[u]) > 0
        /\ u \in DOMAIN db /\ db[u].is_verified

\* C28: a login rejected for an unknown email, an unverified row or a wrong
\* password, and a verification rejected because the cache holds no entry
\* for the token, leave every row of the store and every entry of the
\* cache (sessions, verification tokens) as they were.
C28_RejectionChangesNothing ==
    [][\A p \in Procs :
        (/\ pc'[p] = "done" /\ ~faulted'[p]
         /\ \/ pc[p] = "login1" /\ resp'[p].status = 401
            \/ pc[p] = "verify1" /\ resp'[p].status = 400)
        => (db' = db /\ redis' = redis)
      ]_vars

\* A verification has just been rejected for an absent token, a login was
\* rejected before, and a session is cached.
C28_Witness ==
    /\ \E p \in Procs :
          /\ Done(p, "verify") /\ resp[p].status = 400 /\ ~faulted[p]
          /\ <<"verification", req[p].vtok>> \notin DOMAIN redis
    /\ rejects # {}
    /\ \E k \in DOMAIN redis : k[1] = "refresh_token"

\* The verification tokens the resend request of p has created when it takes
\* its last step: the one minted in that step, or the one it was about to
\* mail.
C29_Created(p) ==
    (Flatten(vissued') \ Flatten(vissued))
    \cup (IF pc[p] = "resend4" THEN {loc[p].verification_token} ELSE {})

\* C29: when a resend ends with an error (the token could not be generated
\* or stored, the email could not be sent), no token the request created is
\* in the verification cache and no row holds one as its verification
\* token.
C29_FailedResendLeavesNothing ==
    [][\A p \in Procs :
        (/\ pc[p] \in {"resend3", "resend4"} /\ pc'[p] = "done"
         /\ resp'[p].status = 500)
        => \A tk \in C29_Created(p) :
              /\ <<"verification", tk>> \notin DOMAIN redis'
              /\ \A u \in DOMAIN db' : db'[u].verification_token # tk
      ]_vars

\* The same for the cache alone: a token of a failed resend is not accepted.
C29_FailedResendTokenDead ==
    [][\A p \in Procs :
        (/\ pc[p] \in {"resend3", "resend4"} /\ pc'[p] = "done"
         /\ resp'[p].status = 500)
        => \A tk \in C29_Created(p) : <<"verification", tk>> \notin DOMAIN redis'
      ]_vars

\* C30: a cache hit of getAllEvents or getEventsByRegistrations returns the
\* list the same call, with its own order, skip and take, fetches from the
\* store: calls that denote different queries do not read each other's
\* entry.
C30_HitServesOwnQuery ==
    [][\A p \in Procs :
        (pc[p] = "events1" /\ pc'[p] = "done" /\ ~faulted'[p])
        => resp'[p].list = findMany(req[p].order, req[p].skip, req[p].take)
      ]_vars
====
